---- MODULE Spec2Model ----
(***************************************************************************)
(* Model of app.py, the Streamlit fitness and diet planner.                *)
(*                                                                         *)
(* Streamlit executes the script top to bottom once per user interaction;  *)
(* st.session_state survives from one execution to the next.  One action  *)
(* of the model is one execution of the script: a plain page load, a       *)
(* press of the "Generate Plans" button, or a submitted chat question.     *)
(* The completion endpoint is the environment: each call either returns a  *)
(* text or raises.                                                         *)
(***************************************************************************)
EXTENDS Integers, Sequences, FiniteSets, TLC

VARIABLES
    env_key,        \* os.getenv("GROQ_API_KEY"): <<>> is None, <<s>> the string s
    secrets_key,    \* st.secrets.get("GROQ_API_KEY", None), same encoding
    pc,             \* "start": never run; "ready": last run reached the footer;
                    \* "stopped": last run ended in st.stop()
    langchain_llm,  \* <<>> until ChatGroq(...) is constructed, then <<model>>
    session_state,  \* st.session_state: a function on a subset of {"plan","messages"}
    chat_shown,     \* whether the last run rendered st.chat_input
    alert,          \* st.error / st.success shown by the last run ("" if none)
    invoked,        \* whether any chain.invoke call has been issued so far
    generated,      \* <<>>, or <<t>>: t is what the latest successful plan call returned
    failed_since,   \* whether a plan call has raised since `generated` was set
    last            \* record of the last run: operation, outcome, state before it,
                    \* arguments and prompt of its completion call

vars == <<env_key, secrets_key, pc, langchain_llm, session_state, chat_shown,
          alert, invoked, generated, failed_since, last>>

-----------------------------------------------------------------------------
(* Bounds of the model and the input sets.                                 *)

MaxQuestions == 2

Keys == {<<>>, <<"">>, <<"gsk_live">>}

Questions == {"How many rest days?", "Can I swap meals?"}

\* What the endpoint returns to a plan prompt, and to a chat prompt
PlanTexts == {"| Day | Meal | Workout |", "## Week 1"}

AnswerTexts == {"Two rest days."}

Errors == {"Connection error."}

\* Form values: weights are in hundredths of a kilogram (the float widget's
\* default step is 0.01).
PlanRequests ==
    [ workout_type         : {"Muscle Gain"},
      diet_type            : {"Mediterranean"},
      current_weight       : {7500, 8025},
      target_weight        : {6800},
      dietary_restrictions : {"none"},
      health_conditions    : {"none", "{age}"},
      age                  : {30},
      gender               : {"Male"},
      number_of_weeks      : {4, 12},
      comments             : {""} ]

-----------------------------------------------------------------------------
(* Python values.                                                          *)

None == <<>>

Truthy(v) == v # None /\ v[1] # ""

\* a or b
Or(a, b) == IF Truthy(a) THEN a ELSE b

\* str(x) of a float x given in hundredths: shortest repr, at least one decimal
FormatFloat(w) ==
    LET c == w % 100
    IN  ToString(w \div 100) \o "." \o
        (IF c % 10 = 0 THEN ToString(c \div 10)
         ELSE IF c < 10 THEN "0" \o ToString(c)
         ELSE ToString(c))

IntFields == {"age", "number_of_weeks"}

FloatFields == {"current_weight", "target_weight"}

\* format(value, "") of the value passed for placeholder `name`
Str(name, v) ==
    IF name \in IntFields THEN ToString(v)
    ELSE IF name \in FloatFields THEN FormatFloat(v)
    ELSE v

\* d[k] = v
Put(d, k, v) == [x \in (DOMAIN d) \cup {k} |-> IF x = k THEN v ELSE d[x]]

Turn(role, content) == [role |-> role, content |-> content]

-----------------------------------------------------------------------------
(* Prompts.  A template is the sequence of its literal pieces and its      *)
(* {placeholders}, as the f-string formatter parses it.                    *)

Lit(s) == [ph |-> "", text |-> s]

Ph(name) == [ph |-> name, text |-> ""]

\* Variant: the workout line does not name the number of weeks
plan_prompt_template_OneWeeks ==
    << Lit("\nYou are a fitness and diet planner. Using the following inputs, create two detailed plans:\n1. A **diet plan** table listing day-to-day food intake for "),
       Ph("number_of_weeks"),
       Lit(" weeks.\n2. A **workout plan** table listing day-to-day exercises.\n\nInputs:\n- **Workout type**: "),
       Ph("workout_type"),
       Lit("\n- **Diet type**: "),
       Ph("diet_type"),
       Lit("\n- **Current body weight**: "),
       Ph("current_weight"),
       Lit(" kg\n- **Target weight**: "),
       Ph("target_weight"),
       Lit(" kg\n- **Specific dietary restrictions**: "),
       Ph("dietary_restrictions"),
       Lit("\n- **Health conditions**: "),
       Ph("health_conditions"),
       Lit("\n- **Age**: "),
       Ph("age"),
       Lit("\n- **Gender**: "),
       Ph("gender"),
       Lit("\n- **Other instructions**: "),
       Ph("comments"),
       Lit("\n\nReturn the plans in a neat, structured format with tables and include any relevant key notes.\n") >>

\* lines 37-54
plan_prompt_template ==
    << Lit("\nYou are a fitness and diet planner. Using the following inputs, create two detailed plans:\n1. A **diet plan** table listing day-to-day food intake for "),
       Ph("number_of_weeks"),
       Lit(" weeks.\n2. A **workout plan** table listing day-to-day exercises for "),
       Ph("number_of_weeks"),
       Lit(" weeks.\n\nInputs:\n- **Workout type**: "),
       Ph("workout_type"),
       Lit("\n- **Diet type**: "),
       Ph("diet_type"),
       Lit("\n- **Current body weight**: "),
       Ph("current_weight"),
       Lit(" kg\n- **Target weight**: "),
       Ph("target_weight"),
       Lit(" kg\n- **Specific dietary restrictions**: "),
       Ph("dietary_restrictions"),
       Lit("\n- **Health conditions**: "),
       Ph("health_conditions"),
       Lit("\n- **Age**: "),
       Ph("age"),
       Lit("\n- **Gender**: "),
       Ph("gender"),
       Lit("\n- **Other instructions**: "),
       Ph("comments"),
       Lit("\n\nReturn the plans in a neat, structured format with tables and include any relevant key notes.\n") >>

\* lines 72-80
chat_prompt_template ==
    << Lit("\nYou are a fitness and diet expert. Answer the following user question based on the given plan:\n\nPlan: "),
       Ph("plan"),
       Lit("\n\nQuestion: "),
       Ph("question"),
       Lit("\n\nProvide a clear and helpful response.\n") >>

\* The placeholders of a template that kwargs does not supply
Missing(template, kwargs) ==
    {template[i].ph : i \in {j \in DOMAIN template : template[j].ph # ""}}
        \ DOMAIN kwargs

\* One piece of the formatted prompt: the text, and the placeholder it came
\* from ("" for a literal piece).  Substituted text is not parsed again.
Piece(seg, kwargs) ==
    IF seg.ph = "" THEN [field |-> "", text |-> seg.text]
    ELSE [field |-> seg.ph, text |-> Str(seg.ph, kwargs[seg.ph])]

\* template.format(**kwargs); every placeholder is supplied
Format(template, kwargs) ==
    [i \in DOMAIN template |-> Piece(template[i], kwargs)]

\* (prompt | langchain_llm | StrOutputParser()).invoke(kwargs): the prompt is
\* formatted, then the endpoint returns outcome.text or raises it.
Invoke(template, kwargs, outcome) ==
    IF Missing(template, kwargs) # {}
    THEN [ok |-> FALSE, text |-> "Input to PromptTemplate is missing variables", prompt |-> <<>>]
    ELSE [ok |-> outcome.ok, text |-> outcome.text, prompt |-> Format(template, kwargs)]

Returns(t) == [ok |-> TRUE, text |-> t]

Raises(e) == [ok |-> FALSE, text |-> e]

Outcomes(texts) == {Returns(t) : t \in texts} \cup {Raises(e) : e \in Errors}

-----------------------------------------------------------------------------
(* The script.                                                             *)

\* lines 14-17
groq_api_key == Or(env_key, secrets_key)

\* Variant: only a key that is None counts as missing
KeyMissing_NoneOnly(key) == key = None

\* line 19: not groq_api_key
KeyMissing(key) == ~Truthy(key)

\* lines 20-24
Diagnostic == "GROQ_API_KEY not found."

\* line 30
Model == "llama-3.3-70b-versatile"

\* lines 123-134: the mapping handed to plan_chain.invoke
PlanKwargs(form) == form

\* lines 166-169: the mapping handed to chat_chain.invoke
ChatKwargs(ss, q) == [plan |-> ss["plan"], question |-> q]

\* The session's transcript: st.session_state.messages, empty while unset
TranscriptOf(ss) == IF "messages" \in DOMAIN ss THEN ss["messages"] ELSE <<>>

Transcript == TranscriptOf(session_state)

HasPlan(ss) == "plan" \in DOMAIN ss

\* Variant: the except branch stores the error text as the plan
ButtonHandler_ErrorAsPlan(ss, form, outcome) ==
    LET s1 == Put(ss, "messages", <<>>)
        r  == Invoke(plan_prompt_template, PlanKwargs(form), outcome)
    IN  IF r.ok
        THEN [ss |-> Put(s1, "plan", r.text), alert |-> "Plans generated successfully!"]
        ELSE [ss |-> Put(s1, "plan", "Error: " \o r.text), alert |-> "Error: " \o r.text]

\* Variant: the plan is blanked when the button is pressed, before the call
ButtonHandler_ResetFirst(ss, form, outcome) ==
    LET s1 == Put(Put(ss, "messages", <<>>), "plan", "")
        r  == Invoke(plan_prompt_template, PlanKwargs(form), outcome)
    IN  IF r.ok
        THEN [ss |-> Put(s1, "plan", r.text), alert |-> "Plans generated successfully!"]
        ELSE [ss |-> s1, alert |-> "Error: " \o r.text]

\* Variant: the plan is removed when the button is pressed, before the call
ButtonHandler_PopPlan(ss, form, outcome) ==
    LET s1 == [x \in ((DOMAIN ss) \ {"plan"}) \cup {"messages"} |->
                  IF x = "messages" THEN <<>> ELSE ss[x]]
        r  == Invoke(plan_prompt_template, PlanKwargs(form), outcome)
    IN  IF r.ok
        THEN [ss |-> Put(s1, "plan", r.text), alert |-> "Plans generated successfully!"]
        ELSE [ss |-> s1, alert |-> "Error: " \o r.text]

\* Variant: line 119 is missing, the messages are not reset
ButtonHandler_NoClear(ss, form, outcome) ==
    LET r == Invoke(plan_prompt_template, PlanKwargs(form), outcome)
    IN  IF r.ok
        THEN [ss |-> Put(ss, "plan", r.text), alert |-> "Plans generated successfully!"]
        ELSE [ss |-> ss, alert |-> "Error: " \o r.text]

\* lines 118-140: the body of `if st.button("Generate Plans")`
ButtonHandler(ss, form, outcome) ==
    LET s1 == Put(ss, "messages", <<>>)
        r  == Invoke(plan_prompt_template, PlanKwargs(form), outcome)
    IN  IF r.ok
        THEN [ss |-> Put(s1, "plan", r.text), alert |-> "Plans generated successfully!"]
        ELSE [ss |-> s1, alert |-> "Error: " \o r.text]

\* lines 165-171: the answer to question q; reading st.session_state.plan
\* is inside the try
Answer(ss, q, outcome) ==
    IF ~HasPlan(ss) THEN "Error: st.session_state has no attribute \"plan\""
    ELSE LET r == Invoke(chat_prompt_template, ChatKwargs(ss, q), outcome)
         IN  IF r.ok THEN r.text ELSE "Error: " \o r.text

\* Variant: no try/except, a raising call ends the run after the user turn
ChatHandler_NoCatch(ss, q, outcome) ==
    LET s1 == Put(ss, "messages", Append(ss["messages"], Turn("user", q)))
    IN  IF outcome.ok
        THEN Put(s1, "messages",
                 Append(s1["messages"], Turn("assistant", Answer(ss, q, outcome))))
        ELSE s1

\* Variant: line 163 assigns a new list instead of appending
ChatHandler_Overwrite(ss, q, outcome) ==
    LET s1 == Put(ss, "messages", <<Turn("user", q)>>)
    IN  Put(s1, "messages",
            Append(s1["messages"], Turn("assistant", Answer(ss, q, outcome))))

\* lines 163-174: the body of `if prompt := st.chat_input(...)`
ChatHandler(ss, q, outcome) ==
    LET s1 == Put(ss, "messages", Append(ss["messages"], Turn("user", q)))
    IN  Put(s1, "messages",
            Append(s1["messages"], Turn("assistant", Answer(ss, q, outcome))))

\* Variant: the chat section is not guarded by the plan
ChatRendered_Always(ss) == TRUE

\* line 152: the chat section is rendered
ChatRendered(ss) == HasPlan(ss)

\* lines 152-174; prompt is what st.chat_input returned
ChatSection(ss, prompt, outcome) ==
    IF ~ChatRendered(ss) THEN ss
    ELSE LET s1 == IF "messages" \notin DOMAIN ss
                   THEN Put(ss, "messages", <<>>) ELSE ss
         IN  IF Truthy(prompt) THEN ChatHandler(s1, prompt[1], outcome) ELSE s1

NoCall == [kwargs |-> <<>>, prompt |-> <<>>]

\* The completion call a run issues, for the record of the run
CallOf(op, ss, prompt, form) ==
    IF op = "generate"
    THEN [kwargs |-> PlanKwargs(form),
          prompt |-> Invoke(plan_prompt_template, PlanKwargs(form), Returns("")).prompt]
    ELSE IF op = "ask" /\ ChatRendered(ss) /\ HasPlan(ss)
    THEN [kwargs |-> ChatKwargs(ss, prompt[1]),
          prompt |-> Invoke(chat_prompt_template, ChatKwargs(ss, prompt[1]), Returns("")).prompt]
    ELSE NoCall

\* One execution of the script, lines 12-178.  button: st.button returned
\* True; prompt: what st.chat_input returns if rendered; form: the widgets'
\* values; outcome: what the endpoint does if called.
Script(op, button, prompt, form, outcome) ==
    /\ UNCHANGED <<env_key, secrets_key>>
    /\ IF KeyMissing(groq_api_key)
       THEN /\ pc' = "stopped"
            /\ alert' = Diagnostic
            /\ chat_shown' = FALSE
            /\ last' = [op |-> "stop", ok |-> FALSE, text |-> "", asked |-> prompt,
                        pre |-> session_state, call |-> NoCall]
            /\ UNCHANGED <<langchain_llm, session_state, invoked, generated, failed_since>>
       ELSE LET b  == IF button THEN ButtonHandler(session_state, form, outcome)
                      ELSE [ss |-> session_state, alert |-> ""]
                c  == CallOf(op, b.ss, prompt, form)
                s2 == ChatSection(b.ss, prompt, outcome)
                called == c # NoCall \/ (Truthy(prompt) /\ ChatRendered(b.ss))
                r  == Invoke(plan_prompt_template, PlanKwargs(form), outcome)
            IN  /\ pc' = "ready"
                /\ langchain_llm' = <<Model>>
                /\ session_state' = s2
                /\ alert' = b.alert
                /\ chat_shown' = ChatRendered(b.ss)
                /\ invoked' = (invoked \/ called)
                /\ generated' = IF button /\ r.ok THEN <<r.text>> ELSE generated
                /\ failed_since' = IF button THEN ~r.ok ELSE failed_since
                /\ last' = [op |-> op, ok |-> IF called THEN outcome.ok ELSE TRUE,
                            text |-> IF called THEN outcome.text ELSE "",
                            asked |-> prompt, pre |-> session_state, call |-> c]

-----------------------------------------------------------------------------
(* The session.                                                            *)

Init ==
    /\ env_key \in Keys
    /\ secrets_key \in Keys
    /\ pc = "start"
    /\ langchain_llm = None
    /\ session_state = <<>>
    /\ chat_shown = FALSE
    /\ alert = ""
    /\ invoked = FALSE
    /\ generated = None
    /\ failed_since = FALSE
    /\ last = [op |-> "none", ok |-> TRUE, text |-> "", asked |-> None,
               pre |-> <<>>, call |-> NoCall]

AnyForm == CHOOSE f \in PlanRequests : TRUE

\* The page is opened or reloaded, or a form widget changes
PageLoad ==
    Script("load", FALSE, None, AnyForm, Returns(""))

\* The "Generate Plans" button, rendered by the last run, is pressed
GeneratePlan ==
    /\ pc = "ready"
    /\ \E form \in PlanRequests, outcome \in Outcomes(PlanTexts) :
           Script("generate", TRUE, None, form, outcome)

\* A question is submitted in the chat input rendered by the last run
AskQuestion ==
    /\ chat_shown
    /\ Len(Transcript) < 2 * MaxQuestions
    /\ \E q \in Questions, outcome \in Outcomes(AnswerTexts) :
           Script("ask", FALSE, <<q>>, AnyForm, outcome)

Next == PageLoad \/ GeneratePlan \/ AskQuestion

Spec == Init /\ [][Next]_vars

-----------------------------------------------------------------------------
(* Properties.                                                             *)

\* lines 57-68: input_variables of plan_prompt
PlanFields ==
    {"workout_type", "diet_type", "current_weight", "target_weight",
     "dietary_restrictions", "health_conditions", "age", "gender",
     "number_of_weeks", "comments"}

IsPrefix(a, b) == Len(a) <= Len(b) /\ SubSeq(b, 1, Len(a)) = a

Count(prompt, f) == Cardinality({i \in DOMAIN prompt : prompt[i].field = f})

PreTranscript == TranscriptOf(last.pre)

RanGenerate == last.op = "generate"

RanAsk == last.op = "ask"

\* The last run stored a newly returned completion as the plan
PlanReplaced == RanGenerate /\ last.ok

\* C1: the transcript is reset to empty by exactly the runs that replace the
\* plan with a newly returned completion; a run that leaves the plan as it
\* was (a failed GeneratePlan, an AskQuestion, a page load) removes no turn.
C1_ClearedOnlyOnReplace ==
    last.op \in {"load", "generate", "ask"} =>
        /\ PlanReplaced => Transcript = <<>>
        /\ ~PlanReplaced => IsPrefix(PreTranscript, Transcript)

\* C2: an AskQuestion taken while a plan exists lengthens the transcript by
\* exactly 2, a user turn then an assistant turn, whether the completion
\* call returns or raises.
C2_AskAddsTwo ==
    (RanAsk /\ HasPlan(last.pre)) =>
        /\ Len(Transcript) = Len(PreTranscript) + 2
        /\ Transcript[Len(Transcript) - 1].role = "user"
        /\ Transcript[Len(Transcript)].role = "assistant"

C2_Witness ==
    /\ RanAsk /\ HasPlan(last.pre) /\ ~last.ok
    /\ Len(PreTranscript) = 2
    /\ Len(Transcript) = 4

\* C3: a GeneratePlan whose completion call raises leaves the stored plan as
\* it was: the same text if there was one, still absent if there was none,
\* and then the chat input is not rendered; the error is shown.
C3_FailKeepsPlan ==
    (RanGenerate /\ ~last.ok) =>
        /\ HasPlan(session_state) <=> HasPlan(last.pre)
        /\ HasPlan(last.pre) => session_state["plan"] = last.pre["plan"]
        /\ ~HasPlan(last.pre) => ~chat_shown
        /\ alert = "Error: " \o last.text

C3_Witness ==
    /\ RanGenerate /\ ~last.ok
    /\ HasPlan(last.pre)
    /\ session_state["plan"] \in PlanTexts

\* C4: turns are appended only while a plan exists: a non-empty transcript
\* implies a stored plan, the chat input is rendered only with a plan, and
\* every question run (and its completion call) started from a state with a
\* plan.
C4_TurnsNeedPlan ==
    /\ Transcript # <<>> => HasPlan(session_state)
    /\ chat_shown => HasPlan(session_state)
    /\ RanAsk => HasPlan(last.pre)
    /\ "question" \in DOMAIN last.call.kwargs => HasPlan(last.pre)

C4_Witness ==
    /\ RanAsk
    /\ Transcript # <<>>
    /\ HasPlan(session_state)

\* C5: after a GeneratePlan whose completion call returns, the stored plan is
\* exactly the returned text and the transcript is empty, whatever they were
\* before.
C5_SuccessSetsPlan ==
    PlanReplaced =>
        /\ HasPlan(session_state)
        /\ session_state["plan"] = last.text
        /\ generated = <<last.text>>
        /\ "messages" \in DOMAIN session_state
        /\ Transcript = <<>>
        /\ alert = "Plans generated successfully!"

C5_Witness ==
    /\ PlanReplaced
    /\ HasPlan(last.pre)
    /\ last.pre["plan"] # session_state["plan"]
    /\ Len(PreTranscript) = 2 * MaxQuestions

\* C6: when neither the environment variable nor the secret store holds a
\* non-empty key, every run stops at the diagnostic: the client is never
\* constructed, no run reaches the button or the chat section, and no
\* completion call is issued.
C6_NoKeyHalts ==
    (~Truthy(env_key) /\ ~Truthy(secrets_key)) =>
        /\ langchain_llm = None
        /\ ~invoked
        /\ last.op \in {"none", "stop"}
        /\ last.call = NoCall
        /\ pc \in {"start", "stopped"}
        /\ pc = "stopped" => alert = Diagnostic
        /\ ~chat_shown
        /\ session_state = <<>>

C6_Witness ==
    /\ env_key = <<"">>
    /\ secrets_key = <<"">>
    /\ pc = "stopped"
    /\ alert = Diagnostic

\* C7: an AskQuestion(q) taken while a plan exists leaves the transcript as
\* the one before it, unchanged and in order, followed by the user turn q
\* and the assistant turn r: the returned text, or "Error: " and the
\* exception's text when the call raises.
C7_AskAppends ==
    (RanAsk /\ HasPlan(last.pre)) =>
        Transcript = PreTranscript \o
            << Turn("user", last.asked[1]),
               Turn("assistant",
                    IF last.ok THEN last.text ELSE "Error: " \o last.text) >>

C7_Witness ==
    /\ RanAsk /\ HasPlan(last.pre)
    /\ PreTranscript = << Turn("user", "Can I swap meals?"),
                          Turn("assistant", "Error: Connection error.") >>
    /\ last.asked = <<"How many rest days?">>
    /\ last.ok /\ last.text = "Two rest days."

\* The pieces of the plan prompt that carry a field hold that field's value
\* as str() formats it, and every placeholder was supplied
Resolved(prompt, kwargs) ==
    /\ prompt # <<>>
    /\ Missing(plan_prompt_template, kwargs) = {}
    /\ \A i \in DOMAIN prompt :
           prompt[i].field # "" =>
               /\ prompt[i].field \in PlanFields
               /\ prompt[i].text = Str(prompt[i].field, kwargs[prompt[i].field])
    /\ \A i \in DOMAIN prompt :
           /\ prompt[i].field = "current_weight" =>
                  prompt[i].text = IF kwargs["current_weight"] = 7500 THEN "75.0" ELSE "80.25"
           /\ prompt[i].field = "target_weight" => prompt[i].text = "68.0"
           /\ prompt[i].field = "number_of_weeks" =>
                  prompt[i].text = IF kwargs["number_of_weeks"] = 4 THEN "4" ELSE "12"
           /\ prompt[i].field = "health_conditions" =>
                  prompt[i].text = kwargs["health_conditions"]

\* C8 as stated: the rendered plan prompt holds the value of each of the 10
\* fields at exactly one placeholder position and no placeholder is left
\* unresolved.
C8_EachFieldOnce ==
    RanGenerate =>
        /\ Resolved(last.call.prompt, last.call.kwargs)
        /\ \A f \in PlanFields : Count(last.call.prompt, f) = 1

\* C8: the rendered plan prompt holds the value of number_of_weeks at exactly
\* two placeholder positions and the value of each of the other 9 fields at
\* exactly one, and no placeholder is left unresolved.
C8_FieldsRendered ==
    RanGenerate =>
        /\ Resolved(last.call.prompt, last.call.kwargs)
        /\ \A f \in PlanFields :
               Count(last.call.prompt, f) = IF f = "number_of_weeks" THEN 2 ELSE 1

C8_Witness ==
    /\ RanGenerate
    /\ last.call.kwargs["health_conditions"] = "{age}"
    /\ last.call.kwargs["current_weight"] = 8025
    /\ last.call.kwargs["number_of_weeks"] = 12
    /\ Len(last.call.prompt) = 23

\* C9: the plan text handed to the completion call of an AskQuestion is the
\* plan stored in the session, which is the text the most recent successful
\* GeneratePlan returned, also when a GeneratePlan failed in between.
C9_AskUsesCurrentPlan ==
    RanAsk =>
        /\ generated # None
        /\ last.call.kwargs["plan"] = last.pre["plan"]
        /\ last.call.kwargs["plan"] = generated[1]
        /\ last.call.prompt[2] = [field |-> "plan", text |-> generated[1]]
        /\ last.call.kwargs["question"] = last.asked[1]

C9_Witness ==
    /\ RanAsk
    /\ failed_since
    /\ last.call.kwargs["plan"] = "## Week 1"

\* The transcript alternates user, assistant, ... and has even length
Alternates(t) ==
    /\ Len(t) % 2 = 0
    /\ \A i \in DOMAIN t :
           t[i].role = IF i % 2 = 1 THEN "user" ELSE "assistant"

\* C10: between user actions the transcript has even length and its roles
\* alternate user, assistant, ... starting with user; and a plan, once
\* present, never becomes absent.
C10_AlternatesAndPlanStays ==
    /\ [](Alternates(Transcript))
    /\ [][HasPlan(session_state) => HasPlan(session_state')]_vars

C10_Witness ==
    /\ Len(Transcript) = 2 * MaxQuestions
    /\ HasPlan(session_state)
    /\ last.op = "load"

====
